---- MODULE Spec2Model ----
(***************************************************************************)
(* RightsParserClient (examples/rights_parser_client.py): a blocking HTTP  *)
(* client that uploads a PDF, polls the job status and fetches the result. *)
(* The remote service and the wall clock are the environment: every        *)
(* response and every request duration is chosen nondeterministically.     *)
(***************************************************************************)
EXTENDS Integers, Sequences, FiniteSets, TLC

VARIABLES
    args,       \* the arguments __init__ was called with (never changes)
    self,       \* the client object: api_url, api_key, timeout, session
    now,        \* time.time(), in seconds
    pc,         \* position of the calling thread: "idle" or a line of the wait loop
    frame,      \* locals of the call in progress (or of the last call)
    trace,      \* what the call in progress (or the last call) did: requests, sleeps
    outcome,    \* how the last call ended: nothing yet, a return value, an exception
    man         \* a caller that replays the last upload-and-wait by hand

vars == <<args, self, now, pc, frame, trace, outcome, man>>

----------------------------------------------------------------------------
(* Bounds of the model *)

MaxTimeout == 20        \* largest timeout given to the constructor
TimeoutStep == 5        \* the timeouts tried are the multiples of this
MaxReqDur == 1          \* a request takes 0..MaxReqDur seconds
MaxStart == 0           \* a new call starts only while now <= MaxStart

(* Program constants *)

DefaultPollInterval == 10

----------------------------------------------------------------------------
(* Values *)

None == "<None>"

ApiUrls == { <<"https://srv">>, <<"https://srv", "/", "/">> }
ApiKeys == { "key-1", "key-2" }
Timeouts == { t \in 0..MaxTimeout : t % TimeoutStep = 0 }
PollIntervals == { 7, DefaultPollInterval }
Durations == 0..MaxReqDur
JobIds == { "abc", "xyz" }
WebhookUrls == { None, "https://hook" }

NonTerminalStatuses == { "queued", "processing", "cancelled" }
ErrorMessages == { "disk full", "" }

UploadJson == { [job_id |-> j, status |-> "queued"] : j \in JobIds }
StatusJson ==
    { [status |-> s] : s \in NonTerminalStatuses \cup {"completed", "failed"} }
    \cup { [status |-> "failed", error_message |-> m] : m \in ErrorMessages }
ResultJson == { [job_id |-> "abc", ipfs_cid |-> "Qm1"],
                [job_id |-> "xyz", ipfs_cid |-> "Qm2"] }
ListJson == { <<>>, <<[job_id |-> "abc", status |-> "completed"]>> }
HealthJson == { [status |-> "healthy"] }

(* What the service, or the network, answers to one request *)
Ok(json) == [kind |-> "ok", json |-> json]
HttpError == [kind |-> "http_error", code |-> 500]
NetworkFailure == [kind |-> "network_failure"]
Failures == { HttpError, NetworkFailure }
Responses(jsons) == { Ok(j) : j \in jsons } \cup Failures

(* How a call ends *)
NoOutcome == [kind |-> "none"]
Return(value) == [kind |-> "return", value |-> value]
Raise(type, message) == [kind |-> "raise", type |-> type, message |-> message]

----------------------------------------------------------------------------
(* Helpers *)

DigitStr(d) ==
    CASE d = 0 -> "0" [] d = 1 -> "1" [] d = 2 -> "2" [] d = 3 -> "3" [] d = 4 -> "4"
      [] d = 5 -> "5" [] d = 6 -> "6" [] d = 7 -> "7" [] d = 8 -> "8" [] d = 9 -> "9"

RECURSIVE Str(_)
Str(n) == IF n < 10 THEN DigitStr(n) ELSE Str(n \div 10) \o DigitStr(n % 10)

RECURSIVE rstrip(_, _)
rstrip(s, ch) ==
    IF s # <<>> /\ s[Len(s)] = ch THEN rstrip(SubSeq(s, 1, Len(s) - 1), ch) ELSE s

DictGet(d, key, default) == IF key \in DOMAIN d THEN d[key] ELSE default

----------------------------------------------------------------------------
(* The client *)

RightsParserClient(api_url, api_key, timeout) ==
    [ api_url |-> rstrip(api_url, "/"),
      api_key |-> api_key,
      timeout |-> timeout,
      session |-> [headers |-> ("X-API-Key" :> api_key)] ]

(* Mutant: the request is sent outside the session, without its headers *)
SessionRequest_NoSession(method, url, params) ==
    [ method |-> method, url |-> url, params |-> params, headers |-> <<>> ]

(* session.get / session.post: the request as it goes on the wire *)
SessionRequest(method, url, params) ==
    [ method |-> method, url |-> url, params |-> params,
      headers |-> self.session.headers ]

(* response.raise_for_status() and response.json(), after a network call *)
raise_for_status(resp) ==
    CASE resp.kind = "network_failure" -> Raise("ConnectionError", "connection failed")
      [] resp.kind = "http_error" -> Raise("HTTPError", Str(resp.code) \o " Server Error")
      [] OTHER -> Return(resp.json)

UploadParams(webhook_url) ==
    IF webhook_url \notin { None, "" } THEN [webhook_url |-> webhook_url] ELSE <<>>

UploadRequest(webhook_url) ==
    SessionRequest("POST", self.api_url \o <<"/api/v1/upload">>, UploadParams(webhook_url))
StatusRequest(job_id) ==
    SessionRequest("GET", self.api_url \o <<"/api/v1/status/", job_id>>, <<>>)
ResultRequest(job_id) ==
    SessionRequest("GET", self.api_url \o <<"/api/v1/result/", job_id>>, <<>>)
JobsRequest == SessionRequest("GET", self.api_url \o <<"/api/v1/jobs">>, <<>>)
HealthRequest == SessionRequest("GET", self.api_url \o <<"/health">>, <<>>)

(* Entries of the trace *)
Sent(req, resp, d) == [ev |-> "request", req |-> req, resp |-> resp, dur |-> d]
Slept(secs) == [ev |-> "sleep", secs |-> secs]

(* Mutant: the timeout check allows one more poll interval *)
TimedOut_Grace(start_time) == now - start_time > self.timeout + DefaultPollInterval

(* Mutant: the timeout check is not strict *)
TimedOut_NotStrict(start_time) == now - start_time >= self.timeout

(* wait_for_completion, line by line *)
TimedOut(start_time) == now - start_time > self.timeout

TimeoutMessage(job_id) ==
    "Job " \o job_id \o " did not complete within " \o Str(self.timeout) \o "s"

(* Mutant: the job-failed message drops the server's text *)
JobFailedMessage_Generic(status) == "Job failed: Unknown error"

JobFailedMessage(status) ==
    "Job failed: " \o DictGet(status, "error_message", "Unknown error")

(* Locals of upload_pdf, and of wait_for_completion under its caller *)
UploadFrame(webhook_url, wait_for_result, job_id) ==
    [ op |-> "upload_pdf", webhook_url |-> webhook_url,
      wait_for_result |-> wait_for_result, job_id |-> job_id ]

WaitFrame(caller, job_id, poll_interval, start_time) ==
    [ op |-> "wait_for_completion", caller |-> caller, job_id |-> job_id,
      poll_interval |-> poll_interval, start_time |-> start_time ]

User == [op |-> "user"]
Off == [phase |-> "off"]

(* A call made by any caller, while the model's clock allows a new call *)
Caller == now <= MaxStart /\ man' = Off

(* A call that ends at once: nothing is left of it but its outcome *)
Finish(fr, events, out, d) ==
    /\ pc' = "idle"
    /\ frame' = fr
    /\ trace' = events
    /\ outcome' = out
    /\ now' = now + d
    /\ UNCHANGED <<args, self>>

----------------------------------------------------------------------------
(* Operations *)

(* Mutant: upload_pdf waits whatever wait_for_result says *)
ReturnsJob_Never(wait_for_result) == FALSE

(* line 58: upload_pdf returns the job record without waiting *)
ReturnsJob(wait_for_result) == ~wait_for_result

upload_pdf(file_ok, webhook_url, wait_for_result, resp, d) ==
    /\ pc = "idle"
    /\ IF ~file_ok
       THEN Finish(UploadFrame(webhook_url, wait_for_result, None), <<>>,
                   Raise("FileNotFoundError", "No such file or directory"), 0)
       ELSE LET sent == <<Sent(UploadRequest(webhook_url), resp, d)>>
                got == raise_for_status(resp)
            IN  IF got.kind = "raise"
                THEN Finish(UploadFrame(webhook_url, wait_for_result, None), sent, got, d)
                ELSE LET job == got.value
                         job_id == job.job_id
                         fr == UploadFrame(webhook_url, wait_for_result, job_id)
                     IN  IF ReturnsJob(wait_for_result)
                         THEN Finish(fr, sent, Return(job), d)
                         ELSE /\ pc' = "check"
                              /\ frame' = WaitFrame(fr, job_id, DefaultPollInterval,
                                                    now + d)
                              /\ trace' = sent
                              /\ outcome' = NoOutcome
                              /\ now' = now + d
                              /\ UNCHANGED <<args, self>>

wait_for_completion(job_id, poll_interval) ==
    /\ pc = "idle"
    /\ pc' = "check"
    /\ frame' = WaitFrame(User, job_id, poll_interval, now)
    /\ trace' = <<>>
    /\ outcome' = NoOutcome
    /\ UNCHANGED <<args, self, now>>

(* Views of the trace *)
IsRequest(e) == e.ev = "request"
IsSleep(e) == e.ev = "sleep"
IsStatusPoll(e) == IsRequest(e) /\ e.req.url[Len(e.req.url) - 1] = "/api/v1/status/"
IsResultFetch(e) == IsRequest(e) /\ e.req.url[Len(e.req.url) - 1] = "/api/v1/result/"
IsUpload(e) == IsRequest(e) /\ e.req.url[Len(e.req.url)] = "/api/v1/upload"
Requests(t) == SelectSeq(t, IsRequest)
StatusPolls(t) == SelectSeq(t, IsStatusPoll)

(* Mutant: a wait that runs out of time returns None instead of raising *)
WaitCheckTimeout_ReturnsNone ==
    /\ pc = "check"
    /\ IF TimedOut(frame.start_time)
       THEN /\ pc' = "idle"
            /\ outcome' = Return(None)
       ELSE /\ pc' = "poll"
            /\ UNCHANGED outcome
    /\ UNCHANGED <<args, self, now, frame, trace, man>>

(* The loop of wait_for_completion: the timeout check at its top *)
WaitCheckTimeout ==
    /\ pc = "check"
    /\ IF TimedOut(frame.start_time)
       THEN /\ pc' = "idle"
            /\ outcome' = Raise("TimeoutError", TimeoutMessage(frame.job_id))
       ELSE /\ pc' = "poll"
            /\ UNCHANGED outcome
    /\ UNCHANGED <<args, self, now, frame, trace, man>>

(* Mutant: every status but 'failed' counts as completed *)
AfterStatus_Eager(got) ==
    CASE got.kind = "raise" -> [pc |-> "idle", outcome |-> got]
      [] got.value.status = "failed" ->
            [pc |-> "idle", outcome |-> Raise("Exception", JobFailedMessage(got.value))]
      [] OTHER -> [pc |-> "result", outcome |-> NoOutcome]

(* Mutant: a failed status request is retried after the sleep *)
AfterStatus_RetryOnError(got) ==
    CASE got.kind = "raise" -> [pc |-> "sleep", outcome |-> NoOutcome]
      [] got.value.status = "completed" -> [pc |-> "result", outcome |-> NoOutcome]
      [] got.value.status = "failed" ->
            [pc |-> "idle", outcome |-> Raise("Exception", JobFailedMessage(got.value))]
      [] OTHER -> [pc |-> "sleep", outcome |-> NoOutcome]

(* Mutant: a failed job is polled again *)
AfterStatus_IgnoreFailed(got) ==
    CASE got.kind = "raise" -> [pc |-> "idle", outcome |-> got]
      [] got.value.status = "completed" -> [pc |-> "result", outcome |-> NoOutcome]
      [] OTHER -> [pc |-> "sleep", outcome |-> NoOutcome]

(* Mutant: a status outside the documented ones counts as a failure *)
AfterStatus_UnknownFails(got) ==
    CASE got.kind = "raise" -> [pc |-> "idle", outcome |-> got]
      [] got.value.status = "completed" -> [pc |-> "result", outcome |-> NoOutcome]
      [] got.value.status \in { "queued", "processing" } ->
            [pc |-> "sleep", outcome |-> NoOutcome]
      [] OTHER ->
            [pc |-> "idle", outcome |-> Raise("Exception", JobFailedMessage(got.value))]

(* What the loop does with the answer of get_status *)
AfterStatus(got) ==
    CASE got.kind = "raise" -> [pc |-> "idle", outcome |-> got]
      [] got.value.status = "completed" -> [pc |-> "result", outcome |-> NoOutcome]
      [] got.value.status = "failed" ->
            [pc |-> "idle", outcome |-> Raise("Exception", JobFailedMessage(got.value))]
      [] OTHER -> [pc |-> "sleep", outcome |-> NoOutcome]

WaitPoll(resp, d) ==
    /\ pc = "poll"
    /\ LET next == AfterStatus(raise_for_status(resp))
       IN  /\ pc' = next.pc
           /\ outcome' = next.outcome
    /\ trace' = Append(trace, Sent(StatusRequest(frame.job_id), resp, d))
    /\ now' = now + d
    /\ UNCHANGED <<args, self, frame, man>>

(* Mutant: the wait returns the job info with the result inside it *)
WaitFetchResult_JobInfo(resp, d) ==
    /\ pc = "result"
    /\ pc' = "idle"
    /\ outcome' = IF resp.kind = "ok"
                  THEN Return([job_id |-> frame.job_id, result |-> resp.json])
                  ELSE raise_for_status(resp)
    /\ trace' = Append(trace, Sent(ResultRequest(frame.job_id), resp, d))
    /\ now' = now + d
    /\ UNCHANGED <<args, self, frame, man>>

(* Mutant: the loop goes on after the result was fetched *)
WaitFetchResult_KeepsPolling(resp, d) ==
    /\ pc = "result"
    /\ pc' = IF resp.kind = "ok" THEN "sleep" ELSE "idle"
    /\ outcome' = IF resp.kind = "ok" THEN NoOutcome ELSE raise_for_status(resp)
    /\ trace' = Append(trace, Sent(ResultRequest(frame.job_id), resp, d))
    /\ now' = now + d
    /\ UNCHANGED <<args, self, frame, man>>

WaitFetchResult(resp, d) ==
    /\ pc = "result"
    /\ pc' = "idle"
    /\ outcome' = raise_for_status(resp)
    /\ trace' = Append(trace, Sent(ResultRequest(frame.job_id), resp, d))
    /\ now' = now + d
    /\ UNCHANGED <<args, self, frame, man>>

(* Mutant: the sleep is taken off the client's timeout *)
WaitSleep_Countdown ==
    /\ pc = "sleep"
    /\ pc' = "check"
    /\ trace' = Append(trace, Slept(frame.poll_interval))
    /\ now' = now + frame.poll_interval
    /\ self' = [self EXCEPT !.timeout = @ - frame.poll_interval]
    /\ UNCHANGED <<args, frame, outcome, man>>

(* Mutant: the sleep grows with every poll *)
WaitSleep_Backoff ==
    /\ pc = "sleep"
    /\ pc' = "check"
    /\ trace' = Append(trace, Slept(frame.poll_interval * Len(StatusPolls(trace))))
    /\ now' = now + frame.poll_interval * Len(StatusPolls(trace))
    /\ UNCHANGED <<args, self, frame, outcome, man>>

WaitSleep ==
    /\ pc = "sleep"
    /\ pc' = "check"
    /\ trace' = Append(trace, Slept(frame.poll_interval))
    /\ now' = now + frame.poll_interval
    /\ UNCHANGED <<args, self, frame, outcome, man>>

(* The single-request operations *)
get_status(job_id, resp, d) ==
    /\ pc = "idle"
    /\ Finish([op |-> "get_status", job_id |-> job_id], <<Sent(StatusRequest(job_id), resp, d)>>,
              raise_for_status(resp), d)

get_result(job_id, resp, d) ==
    /\ pc = "idle"
    /\ Finish([op |-> "get_result", job_id |-> job_id], <<Sent(ResultRequest(job_id), resp, d)>>,
              raise_for_status(resp), d)

list_jobs(resp, d) ==
    /\ pc = "idle"
    /\ Finish([op |-> "list_jobs"], <<Sent(JobsRequest, resp, d)>>,
              raise_for_status(resp), d)

health(resp, d) ==
    /\ pc = "idle"
    /\ Finish([op |-> "health"], <<Sent(HealthRequest, resp, d)>>, raise_for_status(resp), d)

----------------------------------------------------------------------------
(* A caller that repeats the last upload-and-wait by hand: upload without  *)
(* waiting, get_status until the status is terminal, then get_result. The  *)
(* service answers each request as it answered the request in the same     *)
(* position of the call that is repeated (man.ref).                        *)

LastUpload == IF frame.op = "wait_for_completion" THEN frame.caller ELSE frame

ManualSubmit ==
    /\ pc = "idle"
    /\ man.phase = "off"
    /\ outcome.kind # "none"
    /\ LastUpload.op = "upload_pdf"
    /\ LastUpload.wait_for_result
    /\ Requests(trace) # <<>>
    /\ LET ref == Requests(trace)
       IN  /\ upload_pdf(TRUE, LastUpload.webhook_url, FALSE, ref[1].resp, ref[1].dur)
           /\ man' = [ phase |-> IF outcome'.kind = "return" THEN "poll" ELSE "done",
                       ref |-> ref, refOutcome |-> outcome, k |-> 2,
                       job |-> outcome', log |-> trace', outcome |-> outcome' ]

ManualPoll ==
    /\ pc = "idle"
    /\ man.phase = "poll"
    /\ man.k <= Len(man.ref)
    /\ get_status(man.job.value.job_id, man.ref[man.k].resp, man.ref[man.k].dur)
    /\ man' = [ man EXCEPT
                  !.phase = CASE outcome'.kind = "raise" -> "done"
                              [] outcome'.value.status = "completed" -> "result"
                              [] outcome'.value.status = "failed" -> "done"
                              [] OTHER -> "poll",
                  !.k = @ + 1,
                  !.log = @ \o trace',
                  !.outcome = outcome' ]

ManualResult ==
    /\ pc = "idle"
    /\ man.phase = "result"
    /\ man.k <= Len(man.ref)
    /\ get_result(man.job.value.job_id, man.ref[man.k].resp, man.ref[man.k].dur)
    /\ man' = [ man EXCEPT !.phase = "done", !.k = @ + 1, !.log = @ \o trace',
                           !.outcome = outcome' ]

Init ==
    /\ args \in [api_url : ApiUrls, api_key : ApiKeys, timeout : Timeouts]
    /\ self = RightsParserClient(args.api_url, args.api_key, args.timeout)
    /\ now = 0
    /\ pc = "idle"
    /\ frame = User
    /\ trace = <<>>
    /\ outcome = NoOutcome
    /\ man = Off

Next ==
    \/ \E f \in BOOLEAN, w \in WebhookUrls, wait \in BOOLEAN,
          r \in Responses(UploadJson), d \in Durations :
            Caller /\ upload_pdf(f, w, wait, r, d)
    \/ \E j \in JobIds, p \in PollIntervals : Caller /\ wait_for_completion(j, p)
    \/ WaitCheckTimeout
    \/ \E r \in Responses(StatusJson), d \in Durations : WaitPoll(r, d)
    \/ \E r \in Responses(ResultJson), d \in Durations : WaitFetchResult(r, d)
    \/ WaitSleep
    \/ \E j \in JobIds, r \in Responses(StatusJson), d \in Durations :
            Caller /\ get_status(j, r, d)
    \/ \E j \in JobIds, r \in Responses(ResultJson), d \in Durations :
            Caller /\ get_result(j, r, d)
    \/ \E r \in Responses(ListJson), d \in Durations : Caller /\ list_jobs(r, d)
    \/ \E r \in Responses(HealthJson), d \in Durations : Caller /\ health(r, d)
    \/ ManualSubmit
    \/ ManualPoll
    \/ ManualResult

Spec == Init /\ [][Next]_vars

----------------------------------------------------------------------------
(* The calling thread alone: the calls that wait, and the steps of the wait  *)
(* loop. The thread is never suspended for good and every request it sends *)
(* is answered, so a step of the loop that can be taken is taken.          *)

WaitNext ==
    \/ \E f \in BOOLEAN, w \in WebhookUrls, r \in Responses(UploadJson), d \in Durations :
            Caller /\ upload_pdf(f, w, TRUE, r, d)
    \/ \E j \in JobIds, p \in PollIntervals : Caller /\ wait_for_completion(j, p)
    \/ WaitCheckTimeout
    \/ \E r \in Responses(StatusJson), d \in Durations : WaitPoll(r, d)
    \/ \E r \in Responses(ResultJson), d \in Durations : WaitFetchResult(r, d)
    \/ WaitSleep

LiveSpec ==
    /\ Init
    /\ [][WaitNext]_vars
    /\ WF_vars(WaitCheckTimeout)
    /\ WF_vars(\E r \in Responses(StatusJson), d \in Durations : WaitPoll(r, d))
    /\ WF_vars(\E r \in Responses(ResultJson), d \in Durations : WaitFetchResult(r, d))
    /\ WF_vars(WaitSleep)

----------------------------------------------------------------------------
(* Properties *)

Last(t) == t[Len(t)]
Waiting == frame.op = "wait_for_completion"
SubmitAndWait == Waiting /\ frame.caller.op = "upload_pdf"
Elapsed == now - frame.start_time
Returned == pc = "idle" /\ outcome.kind = "return"
Raised(type) == pc = "idle" /\ outcome.kind = "raise" /\ outcome.type = type
IsFailure(e) == IsRequest(e) /\ e.resp.kind # "ok"
Answered(e, st) == IsStatusPoll(e) /\ e.resp.kind = "ok" /\ e.resp.json.status \in st
Terminal == { "completed", "failed" }
NonTerminalPoll(e) == IsStatusPoll(e) /\ e.resp.kind = "ok" /\ e.resp.json.status \notin Terminal
Count(t, Test(_)) == Cardinality({ i \in 1..Len(t) : Test(t[i]) })
LastPollDur == IF StatusPolls(trace) = <<>> THEN 0 ELSE Last(StatusPolls(trace)).dur
UrlOf(path, job_id) == rstrip(args.api_url, "/") \o <<path, job_id>>

(* C1, as stated: a wait whose polls all returned a non-terminal status ends in
   TimeoutError no later than timeout + poll_interval after its start. *)
C1_Original ==
    Raised("TimeoutError") => Elapsed <= self.timeout + frame.poll_interval

(* C1, amended: a poll is started only while the elapsed time is at most the
   timeout; a wait that ends in TimeoutError saw only non-terminal statuses, its
   message names the job and the configured timeout, and it ends no later than
   timeout + poll_interval + the duration of its last status request after its
   start. *)
C1_TimeoutBound ==
    /\ pc = "poll" => Elapsed <= self.timeout
    /\ Raised("TimeoutError") =>
          /\ Waiting
          /\ \A i \in 1..Len(trace) : IsStatusPoll(trace[i]) => NonTerminalPoll(trace[i])
          /\ outcome.message = "Job " \o frame.job_id \o " did not complete within "
                                   \o Str(args.timeout) \o "s"
          /\ Elapsed > args.timeout
          /\ Elapsed <= args.timeout + frame.poll_interval + LastPollDur

C1_Witness ==
    /\ Raised("TimeoutError")
    /\ Len(StatusPolls(trace)) >= 2
    /\ Elapsed > self.timeout + frame.poll_interval

(* C2, as stated: a wait that polled 'failed' raises the job-failed error whose
   text is the server's error_message and nothing else, also when the server
   sent none. *)
C2_Original ==
    Raised("Exception") =>
        outcome.message = "Job failed: " \o DictGet(Last(trace).resp.json, "error_message", "")

(* C2, amended: a wait whose poll returned 'failed' ends at once in an Exception,
   a type other than TimeoutError and the transport errors, whose message is
   "Job failed: " followed by the server's error_message when there is one and by
   "Unknown error" when there is none; no other wait raises it. *)
C2_JobFailed ==
    /\ (Waiting /\ trace # <<>> /\ Answered(Last(trace), {"failed"})) => Raised("Exception")
    /\ Raised("Exception") =>
          /\ Waiting
          /\ Answered(Last(trace), {"failed"})
          /\ outcome.type \notin { "TimeoutError", "HTTPError", "ConnectionError" }
          /\ LET st == Last(trace).resp.json
             IN  outcome.message = IF "error_message" \in DOMAIN st
                                   THEN "Job failed: " \o st.error_message
                                   ELSE "Job failed: Unknown error"

C2_Witness ==
    /\ Raised("Exception")
    /\ "error_message" \notin DOMAIN Last(trace).resp.json
    /\ outcome.message = "Job failed: Unknown error"

(* C3: an upload-and-wait that returns sent one upload, then one status poll
   for the uploaded job per non-terminal answer and one more for 'completed',
   then one result request for that job, and returns the result response. *)
C3_ExactCalls ==
    (SubmitAndWait /\ Returned) =>
        LET n == Count(trace, NonTerminalPoll)
            job_id == trace[1].resp.json.job_id
        IN  /\ Count(trace, IsUpload) = 1 /\ IsUpload(trace[1])
            /\ Count(trace, IsStatusPoll) = n + 1
            /\ Count(trace, IsResultFetch) = 1
            /\ Count(trace, IsRequest) = n + 3
            /\ \A i \in 1..Len(trace) :
                  /\ IsStatusPoll(trace[i]) => trace[i].req.url = UrlOf("/api/v1/status/", job_id)
                  /\ IsResultFetch(trace[i]) => trace[i].req.url = UrlOf("/api/v1/result/", job_id)
            /\ IsResultFetch(Last(trace))
            /\ outcome.value = Last(trace).resp.json

C3_Witness ==
    /\ SubmitAndWait /\ Returned
    /\ trace[1].resp.json.job_id = "abc"
    /\ Count(trace, NonTerminalPoll) = 2
    /\ Count(trace, IsStatusPoll) = 3
    /\ Last(trace).req.url = <<"https://srv", "/api/v1/result/", "abc">>

(* C4: when an upload-and-wait returned, the same calls made by hand against
   the same answers return the same payload and send the same requests. *)
ReqsOf(t) == [ i \in 1..Len(t) |-> t[i].req ]

C4_SameAsManual ==
    (man.phase = "done" /\ man.refOutcome.kind = "return") =>
        /\ man.outcome = man.refOutcome
        /\ ReqsOf(man.log) = ReqsOf(man.ref)

C4_Witness ==
    /\ man.phase = "done"
    /\ man.refOutcome.kind = "return"
    /\ Len(man.log) >= 4

(* C5: a request that fails (HTTP error status or network failure) is the last
   thing its call does: the call ends at once with that transport error. *)
C5_TransportError ==
    \A i \in 1..Len(trace) :
        IsFailure(trace[i]) =>
            /\ i = Len(trace)
            /\ Raised(IF trace[i].resp.kind = "http_error" THEN "HTTPError"
                      ELSE "ConnectionError")

C5_Witness ==
    /\ Waiting
    /\ Len(StatusPolls(trace)) >= 2
    /\ IsStatusPoll(Last(trace)) /\ IsFailure(Last(trace))

(* C6: a call sends at most one upload request, and sends nothing after a
   status poll of its wait returned 'failed'. *)
C6_NoRetry ==
    /\ Count(trace, IsUpload) <= 1
    /\ Waiting =>
          \A i \in 1..Len(trace) :
              Answered(trace[i], {"failed"}) => (i = Len(trace) /\ pc = "idle")

C6_Witness ==
    /\ SubmitAndWait
    /\ Len(StatusPolls(trace)) >= 2
    /\ Answered(Last(trace), {"failed"})

(* C7: upload_pdf(wait_for_result=False) ends at once: it sends the upload
   request and nothing else, never sleeps, and returns the uploaded job record. *)
C7_SubmitOnly ==
    (LastUpload.op = "upload_pdf" /\ ~LastUpload.wait_for_result) =>
        /\ pc = "idle"
        /\ Len(trace) <= 1
        /\ \A i \in 1..Len(trace) : IsUpload(trace[i])
        /\ (trace # <<>> /\ trace[1].resp.kind = "ok") => outcome = Return(trace[1].resp.json)

C7_Witness ==
    /\ frame.op = "upload_pdf" /\ ~frame.wait_for_result
    /\ Returned
    /\ outcome.value.job_id = "xyz"

(* C8: every request sent carries the X-API-Key header with the key given to
   the constructor. *)
C8_ApiKeyHeader ==
    \A i \in 1..Len(trace) :
        IsRequest(trace[i]) =>
            DictGet(trace[i].req.headers, "X-API-Key", None) = args.api_key

C8_Witness ==
    /\ Len(Requests(trace)) >= 3
    /\ IsResultFetch(Last(trace))
    /\ Last(trace).req.headers["X-API-Key"] = "key-2"

(* C9: the client's attributes are those the constructor set, whatever calls
   were made and however they ended. *)
C9_ConfigUnchanged ==
    /\ DOMAIN self = { "api_url", "api_key", "timeout", "session" }
    /\ self.api_url = rstrip(args.api_url, "/")
    /\ self.api_key = args.api_key
    /\ self.timeout = args.timeout
    /\ self.session.headers = ("X-API-Key" :> args.api_key)

C9_Witness ==
    /\ Raised("TimeoutError")
    /\ Len(StatusPolls(trace)) >= 2
    /\ args.api_url # self.api_url

(* C10: in a wait, a result request comes only as the last request, at most
   once, after a status poll of the same job returned 'completed'; in an
   upload-and-wait every status and result request names the uploaded job. *)
JobOfWait == IF SubmitAndWait THEN trace[1].resp.json.job_id ELSE frame.job_id

C10_ResultAfterCompleted ==
    Waiting =>
        /\ Count(trace, IsResultFetch) <= 1
        /\ \A i \in 1..Len(trace) :
              /\ IsStatusPoll(trace[i]) =>
                    trace[i].req.url = UrlOf("/api/v1/status/", JobOfWait)
              /\ IsResultFetch(trace[i]) =>
                    /\ i = Len(trace) /\ pc = "idle"
                    /\ trace[i].req.url = UrlOf("/api/v1/result/", JobOfWait)
                    /\ i > 1 /\ Answered(trace[i - 1], {"completed"})
                    /\ trace[i - 1].req.url = UrlOf("/api/v1/status/", JobOfWait)

C10_Witness ==
    /\ SubmitAndWait
    /\ IsResultFetch(Last(trace))
    /\ Count(trace, IsStatusPoll) >= 2
    /\ JobOfWait = "xyz"

(* C11: in a wait, a sleep follows a status poll and lasts poll_interval, the
   same every time; what follows a status poll is that one sleep or the result
   request, and what follows a sleep is the next status poll; the time elapsed
   is the time of the requests plus the sleeps; and when poll_interval >= 1
   and no status request took time there are at most
   timeout \div poll_interval + 1 status polls. *)
RECURSIVE TimeOf(_)
TimeOf(t) ==
    IF t = <<>> THEN 0
    ELSE LET e == t[1]
         IN  (CASE IsSleep(e) -> e.secs
                [] IsUpload(e) -> 0
                [] OTHER -> e.dur) + TimeOf(Tail(t))

InstantPoll(e) == IsStatusPoll(e) => e.dur = 0

C11_FixedInterval ==
    Waiting =>
        /\ \A i \in 1..Len(trace) :
              /\ IsSleep(trace[i]) =>
                    /\ trace[i].secs = frame.poll_interval
                    /\ i > 1 /\ IsStatusPoll(trace[i - 1])
                    /\ i < Len(trace) => IsStatusPoll(trace[i + 1])
              /\ (IsStatusPoll(trace[i]) /\ i < Len(trace)) =>
                    \/ trace[i + 1] = Slept(frame.poll_interval)
                    \/ IsResultFetch(trace[i + 1])
        /\ Elapsed = TimeOf(trace)
        /\ (frame.poll_interval >= 1 /\ \A i \in 1..Len(trace) : InstantPoll(trace[i])) =>
              Count(trace, IsStatusPoll) <= (args.timeout \div frame.poll_interval) + 1

C11_Witness ==
    /\ Waiting
    /\ frame.poll_interval = 7
    /\ \A i \in 1..Len(trace) : InstantPoll(trace[i])
    /\ Count(trace, IsStatusPoll) = 3
    /\ Count(trace, IsStatusPoll) = (args.timeout \div frame.poll_interval) + 1
    /\ Count(trace, IsSleep) = 3

(* C12: a wait with poll_interval >= 1 and a finite timeout, whatever the
   service answers, comes to an end, and it ends in exactly one of: the result
   response returned, the job-failed Exception, TimeoutError, a transport
   error (HTTPError, ConnectionError). *)
WaitOutcome ==
    { k \in { "result", "failed", "timeout", "transport" } :
        CASE k = "result" ->
                /\ outcome.kind = "return"
                /\ IsResultFetch(Last(trace)) /\ outcome.value = Last(trace).resp.json
          [] k = "failed" -> outcome.kind = "raise" /\ outcome.type = "Exception"
          [] k = "timeout" -> outcome.kind = "raise" /\ outcome.type = "TimeoutError"
          [] k = "transport" ->
                outcome.kind = "raise" /\ outcome.type \in { "HTTPError", "ConnectionError" } }

C13_Original ==
    pc \in { "poll", "result" } => Elapsed <= self.timeout

(* C13, amended: the timeout is tested before every status poll and only
   there, strictly: at the test the wait raises TimeoutError when the elapsed
   time is above the timeout and polls otherwise, also when the two are equal;
   so a status request is sent only while the elapsed time is at most the
   timeout, and a result request, sent untested right after the 'completed'
   answer, at most the duration of that status request later; TimeoutError is
   raised only after non-terminal statuses. *)
C13_StrictCheck ==
    /\ [](pc = "poll" => Elapsed <= self.timeout)
    /\ [](pc = "result" => Elapsed <= self.timeout + LastPollDur)
    /\ [](Raised("TimeoutError") =>
            /\ Elapsed > self.timeout
            /\ \A i \in 1..Len(trace) :
                  IsStatusPoll(trace[i]) => NonTerminalPoll(trace[i]))
    /\ [][pc = "check" =>
            IF Elapsed > self.timeout
            THEN pc' = "idle" /\ outcome'.kind = "raise" /\ outcome'.type = "TimeoutError"
                 /\ trace' = trace
            ELSE pc' = "poll"]_vars
    /\ [][pc' = "poll" => pc = "check"]_vars

C13_Witness ==
    /\ pc = "poll"
    /\ Elapsed = self.timeout
    /\ self.timeout > 0
    /\ Count(trace, IsStatusPoll) >= 1

(* C14: in a wait, a status answer other than exactly 'completed' or 'failed',
   documented or not, ends nothing: the wait sleeps poll_interval and then
   tests the timeout and polls again; a wait returns only after 'completed'
   and raises the job-failed Exception only after 'failed'. *)
LastStatus == Last(StatusPolls(trace)).resp.json.status

C14_NonTerminal ==
    Waiting =>
        /\ \A i \in 1..Len(trace) :
              NonTerminalPoll(trace[i]) =>
                  /\ i = Len(trace) => (pc = "sleep" /\ outcome = NoOutcome)
                  /\ i < Len(trace) => trace[i + 1] = Slept(frame.poll_interval)
                  /\ i + 1 = Len(trace) => (pc \in { "check", "poll" } \/ Raised("TimeoutError"))
                  /\ i + 1 < Len(trace) => IsStatusPoll(trace[i + 2])
        /\ Returned => LastStatus = "completed"
        /\ Raised("Exception") => LastStatus = "failed"

C14_Witness ==
    /\ Waiting
    /\ Len(trace) >= 3
    /\ Answered(trace[Len(trace) - 2], { "cancelled" })
    /\ IsSleep(trace[Len(trace) - 1])
    /\ Answered(Last(trace), { "completed" })

====
